---------------------------- MODULE Spec2Model ----------------------------
(***************************************************************************)
(* A model of sheets/columns.py: the Column type family, its conversions   *)
(* (to_python / to_string), the validator chain, attachment to a dialect   *)
(* and the class-wide construction counter.                                *)
(*                                                                         *)
(* Python byte strings (str) are sequences of byte values, unicode objects *)
(* are sequences of code points.  Every Python value is a record tagged by *)
(* its type in field t.                                                    *)
(***************************************************************************)
EXTENDS Integers, Sequences, FiniteSets, TLC

VARIABLES
    count,      \* Column._count: the next value itertools.count() will yield
    columns,    \* the Column objects constructed so far, in construction order
    added,      \* the calls dialect.add_column(column) made so far (column ids)
    last,       \* the last call made by the client and its outcome
    pc,         \* per thread: where it stands inside Column.__init__
    tmp         \* per thread: the value next(_count) returned, not yet stored

vars == <<count, columns, added, last, pc, tmp>>

---------------------------------------------------------------------------
(* Bounds of the model.                                                    *)

MaxColumns == 2       \* columns constructed in one run
MaxChain == 3         \* length of a validator chain, its head included
MaxAttach == 2        \* calls of attach_to_class in one run
NumThreads == 2       \* threads constructing columns concurrently
MaxInFlight == 3      \* constructions started in one concurrent run

---------------------------------------------------------------------------
(* Python values.                                                          *)

None == [t |-> "None"]
Str(s) == [t |-> "str", s |-> s]
Unicode(u) == [t |-> "unicode", u |-> u]
PyInt(i) == [t |-> "int", i |-> i]
Bool(b) == [t |-> "bool", b |-> b]
Dict(d) == [t |-> "dict", d |-> d]      \* d: the function from keys to values

\* A float that has a finite decimal expansion, m * 10^e with e <= 0, kept
\* normalised (m carries no trailing zero while e < 0).
RECURSIVE Float(_, _)
Float(m, e) ==
    IF e < 0 /\ m % 10 = 0 THEN Float(m \div 10, e + 1)
    ELSE [t |-> "float", m |-> m, e |-> e]

\* decimal.Decimal keeps coefficient and exponent as written.
Decimal(c, e) == [t |-> "Decimal", c |-> c, e |-> e]

Date(Y, m, d) == [t |-> "date", Y |-> Y, m |-> m, d |-> d]
DateTime(Y, m, d, H, M, S, tz) ==
    [t |-> "datetime", Y |-> Y, m |-> m, d |-> d, H |-> H, M |-> M, S |-> S,
     tz |-> tz]

\* The outcome of a call: a returned value, or the exception it raised.
Ret(v) == [exc |-> "", val |-> v]
Raise(e) == [exc |-> e, val |-> None]

---------------------------------------------------------------------------
(* Text literals used by the tests and as inputs.                          *)

S_empty == <<>>                                            \* ''
S_value == <<118, 97, 108, 117, 101>>                      \* 'value'
S_true == <<116, 114, 117, 101>>                           \* 'true'
S_false == <<102, 97, 108, 115, 101>>                      \* 'false'
S_True == <<84, 114, 117, 101>>                            \* 'True'
S_False == <<70, 97, 108, 115, 101>>                       \* 'False'
S_yes == <<121, 101, 115>>                                 \* 'yes'
S_no == <<110, 111>>                                       \* 'no'
S_y == <<121>>                                             \* 'y'
S_invalid == <<105, 110, 118, 97, 108, 105, 100>>          \* 'invalid'
S_in_valid == <<105, 110, 44, 118, 97, 108, 105, 100>>     \* 'in,valid'
S_1 == <<49>>                                              \* '1'
S_minus7 == <<32, 45, 55, 32>>                             \* ' -7 '
S_1_1 == <<49, 46, 49>>                                    \* '1.1'
S_1_10 == <<49, 46, 49, 48>>                               \* '1.10'
S_1c024_5 == <<49, 44, 48, 50, 52, 46, 53>>                \* '1,024.5'
S_multi == <<49, 46, 50, 44, 51, 46, 52, 44, 53, 46, 54>>  \* '1.2,3.4,5.6'
S_iso == <<50, 48, 49, 48, 45, 48, 51, 45, 51, 49>>        \* '2010-03-31'
S_feb30 == <<50, 48, 49, 48, 45, 48, 50, 45, 51, 48>>      \* '2010-02-30'
S_dashed_us == <<48, 51, 45, 51, 49, 45, 50, 48, 49, 48>>  \* '03-31-2010'
S_us == <<48, 51, 47, 51, 49, 47, 50, 48, 49, 48>>         \* '03/31/2010'
S_ambig == <<48, 49, 47, 48, 50, 47, 50, 48, 49, 48>>      \* '01/02/2010'
S_us_time ==                                       \* '03/31/2010 11:43:12'
    <<48, 51, 47, 51, 49, 47, 50, 48, 49, 48, 32, 49, 49, 58, 52, 51, 58, 49, 50>>
S_spinal_utf8 == <<83, 112, 105, 110, 204, 136>>           \* 'Spin\xcc\x88'
U_spinal == <<83, 112, 105, 110, 776>>                     \* u'Spin̈'
U_tap == <<84, 97, 112>>                                   \* u'Tap'
S_a_b == <<97, 95, 98>>                                    \* 'a_b'
S_c == <<99>>                                              \* 'c'
S_My_T == <<77, 121, 95, 84>>                              \* 'My_T'

F_ISO == <<37, 89, 45, 37, 109, 45, 37, 100>>              \* '%Y-%m-%d'
F_US == <<37, 109, 47, 37, 100, 47, 37, 89>>               \* '%m/%d/%Y'
F_EU == <<37, 100, 47, 37, 109, 47, 37, 89>>               \* '%d/%m/%Y'
F_USTIME ==                                        \* '%m/%d/%Y %H:%M:%S'
    <<37, 109, 47, 37, 100, 47, 37, 89, 32, 37, 72, 58, 37, 77, 58, 37, 83>>

---------------------------------------------------------------------------
(* Python built-ins the columns call.                                      *)

IsDigit(b) == b \in 48..57
IsSpace(b) == b \in {9, 10, 11, 12, 13, 32}
IsAscii(s) == \A k \in 1..Len(s) : s[k] < 128

RECURSIVE Concat(_)
Concat(ss) == IF ss = <<>> THEN <<>> ELSE Head(ss) \o Concat(Tail(ss))

\* str.strip()
RECURSIVE LStrip(_)
LStrip(s) == IF s # <<>> /\ IsSpace(Head(s)) THEN LStrip(Tail(s)) ELSE s
RECURSIVE RStrip(_)
RStrip(s) ==
    IF s # <<>> /\ IsSpace(s[Len(s)]) THEN RStrip(SubSeq(s, 1, Len(s) - 1))
    ELSE s
Strip(s) == RStrip(LStrip(s))

\* str.lower()
lower(s) == [k \in 1..Len(s) |-> IF s[k] \in 65..90 THEN s[k] + 32 ELSE s[k]]

\* str.replace(old, new) for one-byte old; new is a byte string
replace(s, old, new) ==
    Concat([k \in 1..Len(s) |-> IF s[k] = old THEN new ELSE <<s[k]>>])

AllDigits(s) == \A k \in 1..Len(s) : IsDigit(s[k])

RECURSIVE DigitsValue(_)
DigitsValue(s) ==
    IF s = <<>> THEN 0
    ELSE 10 * DigitsValue(SubSeq(s, 1, Len(s) - 1)) + (s[Len(s)] - 48)

\* The decimal digits of n >= 0, zero-padded on the left to width w.
RECURSIVE Digits(_, _)
Digits(n, w) ==
    IF n < 10 /\ w <= 1 THEN <<48 + n>>
    ELSE Digits(n \div 10, w - 1) \o <<48 + (n % 10)>>

\* An optional sign in front of a numeral: <<sign, rest>>.
Signed(s) ==
    IF s # <<>> /\ s[1] = 45 THEN <<-1, Tail(s)>>
    ELSE IF s # <<>> /\ s[1] = 43 THEN <<1, Tail(s)>>
    ELSE <<1, s>>

\* Where the first '.' of s stands (0: none).
DotAt(s) ==
    IF \E k \in 1..Len(s) : s[k] = 46
    THEN CHOOSE k \in 1..Len(s) : s[k] = 46 /\ \A j \in 1..(k - 1) : s[j] # 46
    ELSE 0

\* A decimal numeral "ddd", "ddd.ddd", ".ddd" or "ddd." split into
\* <<integer digits, fraction digits>>; <<>> when s is no such numeral.
\* (Exponents, 'inf' and 'nan' are not among the texts drawn here.)
Numeral(s) ==
    LET k == DotAt(s)
        ip == IF k = 0 THEN s ELSE SubSeq(s, 1, k - 1)
        fp == IF k = 0 THEN <<>> ELSE SubSeq(s, k + 1, Len(s))
    IN  IF AllDigits(ip) /\ AllDigits(fp) /\ Len(ip) + Len(fp) > 0
        THEN <<ip, fp>> ELSE <<>>

\* int(value)
int(value) ==
    IF value.t = "int" THEN Ret(value)
    ELSE IF value.t = "str"
    THEN LET sg == Signed(Strip(value.s))
         IN  IF sg[2] # <<>> /\ AllDigits(sg[2])
             THEN Ret(PyInt(sg[1] * DigitsValue(sg[2])))
             ELSE Raise("ValueError")
    ELSE Raise("TypeError")

\* float(value)
float(value) ==
    IF value.t = "float" THEN Ret(value)
    ELSE IF value.t = "int" THEN Ret(Float(value.i, 0))
    ELSE IF value.t = "str"
    THEN LET sg == Signed(Strip(value.s))
             nm == Numeral(sg[2])
         IN  IF nm # <<>>
             THEN Ret(Float(sg[1] * DigitsValue(nm[1] \o nm[2]), -Len(nm[2])))
             ELSE Raise("ValueError")
    ELSE Raise("TypeError")

\* decimal.Decimal(value); a malformed numeral raises InvalidOperation
decimal_Decimal(value) ==
    IF value.t = "Decimal" THEN Ret(value)
    ELSE IF value.t = "int" THEN Ret(Decimal(value.i, 0))
    ELSE IF value.t = "str"
    THEN LET sg == Signed(Strip(value.s))
             nm == Numeral(sg[2])
         IN  IF nm # <<>>
             THEN Ret(Decimal(sg[1] * DigitsValue(nm[1] \o nm[2]), -Len(nm[2])))
             ELSE Raise("InvalidOperation")
    ELSE Raise("TypeError")

\* str(value)
str(value) ==
    CASE value.t = "str" -> value.s
      [] value.t = "bool" -> IF value.b THEN S_True ELSE S_False
      [] value.t = "int" ->
            IF value.i < 0 THEN <<45>> \o Digits(-value.i, 1)
            ELSE Digits(value.i, 1)
      [] OTHER -> <<63>>

\* unicode.encode('utf-8') of one code point
utf8(cp) ==
    IF cp < 128 THEN <<cp>>
    ELSE IF cp < 2048 THEN <<192 + (cp \div 64), 128 + (cp % 64)>>
    ELSE <<224 + (cp \div 4096), 128 + ((cp \div 64) % 64), 128 + (cp % 64)>>

\* value.encode('utf-8'): a unicode object is encoded; a Python 2 byte string
\* is first decoded as ASCII, which fails on a byte >= 128
\* (UnicodeDecodeError is a ValueError).
encode_utf8(value) ==
    IF value.t = "unicode"
    THEN Ret(Str(Concat([k \in 1..Len(value.u) |-> utf8(value.u[k])])))
    ELSE IF value.t = "str"
    THEN IF IsAscii(value.s) THEN Ret(value) ELSE Raise("ValueError")
    ELSE Raise("AttributeError")

\* Python's ==.  A Decimal compares by numeric value; a byte string equals a
\* unicode object only when it is ASCII and spells the same code points.
RECURSIVE Pow10(_)
Pow10(n) == IF n <= 0 THEN 1 ELSE 10 * Pow10(n - 1)
PyEq(a, b) ==
    IF a.t = "Decimal" /\ b.t = "Decimal"
    THEN LET e == IF a.e < b.e THEN a.e ELSE b.e
         IN  a.c * Pow10(a.e - e) = b.c * Pow10(b.e - e)
    ELSE IF a.t = "str" /\ b.t = "unicode" THEN IsAscii(a.s) /\ a.s = b.u
    ELSE IF a.t = "unicode" /\ b.t = "str" THEN IsAscii(b.s) /\ b.s = a.u
    ELSE a = b

---------------------------------------------------------------------------
(* datetime.datetime.strptime and strftime, on the bytes of the text.      *)

IsLeap(Y) == (Y % 4 = 0 /\ Y % 100 # 0) \/ Y % 400 = 0
DaysInMonth(Y, m) ==
    IF m = 2 THEN (IF IsLeap(Y) THEN 29 ELSE 28)
    ELSE IF m \in {4, 6, 9, 11} THEN 30 ELSE 31

\* The digits lo..hi as a set of bytes.
D(lo, hi) == (48 + lo)..(48 + hi)

\* The regular expression of a directive (the byte after '%'), as _strptime's
\* TimeRE gives it: its alternatives in the order they are tried, each a
\* sequence of byte sets.  An unknown directive has none.
Alts(d) ==
    CASE d = 100 -> << <<D(3, 3), D(0, 1)>>, <<D(1, 2), D(0, 9)>>,
                       <<D(0, 0), D(1, 9)>>, <<D(1, 9)>>, <<{32}, D(1, 9)>> >>
      [] d = 72  -> << <<D(2, 2), D(0, 3)>>, <<D(0, 1), D(0, 9)>>, <<D(0, 9)>> >>
      [] d = 109 -> << <<D(1, 1), D(0, 2)>>, <<D(0, 0), D(1, 9)>>, <<D(1, 9)>> >>
      [] d = 77  -> << <<D(0, 5), D(0, 9)>>, <<D(0, 9)>> >>
      [] d = 83  -> << <<D(6, 6), D(0, 1)>>, <<D(0, 5), D(0, 9)>>, <<D(0, 9)>> >>
      [] d = 89  -> << <<D(0, 9), D(0, 9), D(0, 9), D(0, 9)>> >>
      [] OTHER   -> << >>

AltMatches(alt, text, ti) ==
    /\ ti + Len(alt) - 1 <= Len(text)
    /\ \A k \in 1..Len(alt) : text[ti + k - 1] \in alt[k]

\* The fields strptime starts from, and one field set from a directive.
DefaultFields == [Y |-> 1900, m |-> 1, d |-> 1, H |-> 0, M |-> 0, S |-> 0]
Put(got, d, v) ==
    CASE d = 100 -> [got EXCEPT !.d = v]
      [] d = 72  -> [got EXCEPT !.H = v]
      [] d = 109 -> [got EXCEPT !.m = v]
      [] d = 77  -> [got EXCEPT !.M = v]
      [] d = 83  -> [got EXCEPT !.S = v]
      [] d = 89  -> [got EXCEPT !.Y = v]
      [] OTHER   -> got

NoMatch == [ok |-> FALSE, end |-> 0, got |-> DefaultFields]

\* How many whitespace bytes stand at text[ti..], and the first index of fmt
\* at or after fi that holds no whitespace.
RECURSIVE SpaceRun(_, _)
SpaceRun(text, ti) ==
    IF ti <= Len(text) /\ IsSpace(text[ti]) THEN 1 + SpaceRun(text, ti + 1) ELSE 0
RECURSIVE SkipSpace(_, _)
SkipSpace(fmt, fi) ==
    IF fi <= Len(fmt) /\ IsSpace(fmt[fi]) THEN SkipSpace(fmt, fi + 1) ELSE fi

\* re.match of the format's regular expression at the start of the text, with
\* the regex engine's backtracking: a directive tries its alternatives in
\* order, whitespace in the format is \s+ (greedy), any other byte is itself.
RECURSIVE re_match(_, _, _, _, _)
RECURSIVE try_alts(_, _, _, _, _, _)
RECURSIVE try_spaces(_, _, _, _, _, _)
RECURSIVE or_next_alt(_, _, _, _, _, _, _)
RECURSIVE or_fewer_spaces(_, _, _, _, _, _, _)
re_match(fmt, fi, text, ti, got) ==
    IF fi > Len(fmt) THEN [ok |-> TRUE, end |-> ti, got |-> got]
    ELSE IF fmt[fi] = 37 /\ fi < Len(fmt) THEN try_alts(fmt, fi, text, ti, got, 1)
    ELSE IF IsSpace(fmt[fi])
    THEN try_spaces(fmt, SkipSpace(fmt, fi), text, ti, got, SpaceRun(text, ti))
    ELSE IF ti <= Len(text) /\ text[ti] = fmt[fi]
    THEN re_match(fmt, fi + 1, text, ti + 1, got)
    ELSE NoMatch
try_alts(fmt, fi, text, ti, got, a) ==
    LET alts == Alts(fmt[fi + 1])
    IN  IF a > Len(alts) THEN NoMatch
        ELSE IF AltMatches(alts[a], text, ti)
        THEN LET n == Len(alts[a])
                 v == DigitsValue(LStrip(SubSeq(text, ti, ti + n - 1)))
             IN  or_next_alt(fmt, fi, text, ti, got, a,
                     re_match(fmt, fi + 2, text, ti + n, Put(got, fmt[fi + 1], v)))
        ELSE try_alts(fmt, fi, text, ti, got, a + 1)
or_next_alt(fmt, fi, text, ti, got, a, r) ==
    IF r.ok THEN r ELSE try_alts(fmt, fi, text, ti, got, a + 1)
try_spaces(fmt, fi, text, ti, got, n) ==
    IF n < 1 THEN NoMatch
    ELSE or_fewer_spaces(fmt, fi, text, ti, got, n,
                         re_match(fmt, fi, text, ti + n, got))
or_fewer_spaces(fmt, fi, text, ti, got, n, r) ==
    IF r.ok THEN r ELSE try_spaces(fmt, fi, text, ti, got, n - 1)

\* datetime.datetime.strptime(value, format): ValueError when the text does
\* not match, when text is left over, or when the day is not in the month.
strptime_found(value, found) ==
    IF ~found.ok \/ found.end # Len(value.s) + 1 THEN Raise("ValueError")
    ELSE IF found.got.d > DaysInMonth(found.got.Y, found.got.m)
    THEN Raise("ValueError")
    ELSE Ret(DateTime(found.got.Y, found.got.m, found.got.d,
                      found.got.H, found.got.M, found.got.S, None))
strptime(value, format) ==
    IF value.t # "str" THEN Raise("TypeError")
    ELSE strptime_found(value, re_match(format, 1, value.s, 1, DefaultFields))

\* What one directive prints; a date has no time of day.
Field(value, d) ==
    CASE d = 89  -> Digits(value.Y, 4)
      [] d = 109 -> Digits(value.m, 2)
      [] d = 100 -> Digits(value.d, 2)
      [] d = 72  -> Digits(IF value.t = "datetime" THEN value.H ELSE 0, 2)
      [] d = 77  -> Digits(IF value.t = "datetime" THEN value.M ELSE 0, 2)
      [] d = 83  -> Digits(IF value.t = "datetime" THEN value.S ELSE 0, 2)
      [] OTHER   -> <<37, d>>

RECURSIVE strftime_from(_, _, _)
strftime_from(value, format, fi) ==
    IF fi > Len(format) THEN <<>>
    ELSE IF format[fi] = 37 /\ fi < Len(format)
    THEN Field(value, format[fi + 1]) \o strftime_from(value, format, fi + 2)
    ELSE <<format[fi]>> \o strftime_from(value, format, fi + 1)

\* value.strftime(format)
strftime(value, format) ==
    IF value.t \in {"date", "datetime"}
    THEN Ret(Str(strftime_from(value, format, 1)))
    ELSE Raise("AttributeError")

\* timezone.localize(dt) of pytz: the naive value, placed in the zone.
localize(timezone, dt) == [dt EXCEPT !.tz = timezone]

\* datetime.date(): the calendar date of a datetime.
date_of(dt) == Date(dt.Y, dt.m, dt.d)

---------------------------------------------------------------------------
(* Column objects.                                                         *)

Unset == [t |-> "unset"]       \* an attribute the object does not have yet

\* An entry of _validators: the bound method self.to_python, or
\* functools.partial(func, self).
Method(name) == [kind |-> "method", fn |-> name]
Partial(func) == [kind |-> "partial", fn |-> func]

\* A function object handed to Column.validator.
Function(func) == [t |-> "function", f |-> func]

\* The class that owns a column, the dialect it is added to, a pytz timezone.
Class(name) == [t |-> "class", name |-> name]
Dialect(name) == [t |-> "dialect", name |-> name]
Timezone(zone) == [t |-> "tzinfo", zone |-> zone]

\* The object before any __init__ has run; kind is its class.
Blank(kind) ==
    [kind |-> kind, title |-> Unset, required |-> Unset, validators |-> Unset,
     counter |-> Unset, cls |-> Unset, name |-> Unset, dialect |-> Unset,
     bool_map |-> Unset, inverted_bool_map |-> Unset,
     format |-> Unset, input_formats |-> Unset, timezone |-> Unset]

Kinds ==
    {"Column", "StringColumn", "UnicodeColumn", "IntegerColumn", "FloatColumn",
     "FloatWithCommaSeparatorsColumn", "BooleanColumn", "DecimalColumn",
     "DateTimeColumn", "DateColumn"}

\* Column.__init__(title, required); n is what next(_count) returned.
Column_init(self, title, required, n) ==
    [self EXCEPT !.title = title,
                 !.required = required,
                 !.validators = <<Method("to_python")>>,
                 !.counter = n]

\* BooleanColumn._default_bool_map
default_bool_map == Dict((S_true :> TRUE) @@ (S_false :> FALSE))

\* {value: key for key, value in bool_map.iteritems()}: when two keys map to
\* one value, the key the dict yields last wins, so each value may end up
\* with any of its keys.
InvertedMaps(bool_map) ==
    LET values == {bool_map.d[k] : k \in DOMAIN bool_map.d}
    IN  {Dict(f) : f \in {g \in [values -> DOMAIN bool_map.d] :
                            \A b \in values : bool_map.d[g[b]] = b}}

\* BooleanColumn.__init__; inverted is the default inverted map the dict
\* comprehension built.
BooleanColumn_init(self, bool_map, inverted_bool_map, inverted, title, required, n) ==
    LET s1 == [self EXCEPT
                 !.bool_map = IF bool_map = None THEN default_bool_map ELSE bool_map,
                 !.inverted_bool_map =
                     IF inverted_bool_map = None THEN inverted ELSE inverted_bool_map]
    IN  Column_init(s1, title, required, n)

\* set([format] + (format_list or [])) and the orders in which iterating the
\* set may yield its elements (the order is stable for one set object).
FormatSet(format, format_list) ==
    {format} \cup {format_list[k] : k \in 1..Len(format_list)}
Orders(S) ==
    {p \in [1..Cardinality(S) -> S] : \A j, k \in 1..Cardinality(S) : p[j] = p[k] => j = k}

\* DateTimeColumn.__init__; order is the iteration order of input_formats.
DateTimeColumn_init(self, format, format_list, timezone, order, title, required, n) ==
    [Column_init(self, title, required, n) EXCEPT
        !.format = format, !.input_formats = order, !.timezone = timezone]

\* The arguments of a constructor call: kind(title, required, ...).
Args(kind, title, required, bool_map, format, format_list, timezone) ==
    [kind |-> kind, title |-> title, required |-> required,
     bool_map |-> bool_map, inverted_bool_map |-> None,
     format |-> format, format_list |-> format_list, timezone |-> timezone]
DefaultArgs(kind) == Args(kind, None, TRUE, None, F_ISO, <<>>, None)

\* The objects a constructor call may produce when next(_count) yields n.
New(a, n) ==
    IF a.kind = "BooleanColumn"
    THEN {BooleanColumn_init(Blank(a.kind), a.bool_map, a.inverted_bool_map, inv,
                             a.title, a.required, n) :
            inv \in InvertedMaps(IF a.bool_map = None THEN default_bool_map
                                 ELSE a.bool_map)}
    ELSE IF a.kind \in {"DateTimeColumn", "DateColumn"}
    THEN {DateTimeColumn_init(Blank(a.kind), a.format, a.format_list, a.timezone,
                              order, a.title, a.required, n) :
            order \in Orders(FormatSet(a.format, a.format_list))}
    ELSE {Column_init(Blank(a.kind), a.title, a.required, n)}

\* Mutant of attach_to_class: the title is derived from the name whenever
\* the column is attached.
attach_to_class_retitling(self, cls, name, dialect) ==
    [self EXCEPT !.cls = cls, !.name = name, !.dialect = dialect,
                 !.title = Str(replace(name.s, 95, <<32>>))]

\* Column.attach_to_class(cls, name, dialect), up to dialect.add_column(self).
attach_to_class(self, cls, name, dialect) ==
    LET s1 == [self EXCEPT !.cls = cls, !.name = name, !.dialect = dialect]
    IN  IF s1.title = None
        THEN [s1 EXCEPT !.title = Str(replace(name.s, 95, <<32>>))]
        ELSE s1

\* Mutant of validator: the check is put in front of the chain.
validator_prepending(self, func) ==
    [self EXCEPT !.validators = <<Partial(func)>> \o self.validators]

\* Column.validator(func): the column afterwards (func itself is returned).
validator(self, func) ==
    [self EXCEPT !.validators = Append(self.validators, Partial(func))]

---------------------------------------------------------------------------
(* to_python and to_string of each class.                                  *)

Column_to_python(self, value) == Ret(value)
Column_to_string(self, value) == Ret(value)

UnicodeColumn_to_string(self, value) == encode_utf8(value)

IntegerColumn_to_python(self, value) == int(value)

FloatColumn_to_python(self, value) == float(value)

FloatWithCommaSeparatorsColumn_to_python(self, value) ==
    IF value.t = "str" THEN float(Str(replace(value.s, 44, <<>>)))
    ELSE float(value)

BooleanColumn_to_python(self, value) ==
    LET str_value == lower(str(value))
    IN  IF str_value \notin DOMAIN self.bool_map.d THEN Raise("ValueError")
        ELSE Ret(Bool(self.bool_map.d[str_value]))

BooleanColumn_to_string(self, value) ==
    IF value.t = "bool" /\ value.b \in DOMAIN self.inverted_bool_map.d
    THEN Ret(Str(self.inverted_bool_map.d[value.b]))
    ELSE Raise("KeyError")

\* except decimal.InvalidOperation as e: raise ValueError(str(e))
as_ValueError(r) == IF r.exc = "InvalidOperation" THEN Raise("ValueError") ELSE r
DecimalColumn_to_python(self, value) == as_ValueError(decimal_Decimal(value))

\* The loop over self.input_formats, from its k-th element on.
\* r is what strptime did with the k-th format.
RECURSIVE try_formats(_, _, _)
RECURSIVE tried_format(_, _, _, _)
try_formats(self, value, k) ==
    IF k > Len(self.input_formats) THEN Raise("ValueError")
    ELSE tried_format(self, value, k, strptime(value, self.input_formats[k]))
tried_format(self, value, k, r) ==
    IF r.exc = ""
    THEN IF self.timezone # None THEN Ret(localize(self.timezone, r.val)) ELSE r
    ELSE IF r.exc = "ValueError" THEN try_formats(self, value, k + 1)
    ELSE r

DateTimeColumn_to_python(self, value) ==
    IF value.t = "datetime" THEN Ret(value)
    ELSE IF value.t = "date"
    THEN Ret(DateTime(value.Y, value.m, value.d, 0, 0, 0, None))
    ELSE try_formats(self, value, 1)

DateTimeColumn_to_string(self, value) == strftime(value, self.format)

\* super(DateColumn, self).to_python(value).date()
dot_date(r) == IF r.exc = "" THEN Ret(date_of(r.val)) ELSE r
DateColumn_to_python(self, value) == dot_date(DateTimeColumn_to_python(self, value))

\* self.to_python(value), by the class of self.
to_python(self, value) ==
    CASE self.kind = "IntegerColumn" -> IntegerColumn_to_python(self, value)
      [] self.kind = "FloatColumn" -> FloatColumn_to_python(self, value)
      [] self.kind = "FloatWithCommaSeparatorsColumn" ->
            FloatWithCommaSeparatorsColumn_to_python(self, value)
      [] self.kind = "BooleanColumn" -> BooleanColumn_to_python(self, value)
      [] self.kind = "DecimalColumn" -> DecimalColumn_to_python(self, value)
      [] self.kind = "DateTimeColumn" -> DateTimeColumn_to_python(self, value)
      [] self.kind = "DateColumn" -> DateColumn_to_python(self, value)
      [] OTHER -> Column_to_python(self, value)

\* self.to_string(value), by the class of self.
to_string(self, value) ==
    CASE self.kind = "UnicodeColumn" -> UnicodeColumn_to_string(self, value)
      [] self.kind = "BooleanColumn" -> BooleanColumn_to_string(self, value)
      [] self.kind \in {"DateTimeColumn", "DateColumn"} ->
            DateTimeColumn_to_string(self, value)
      [] OTHER -> Column_to_string(self, value)

---------------------------------------------------------------------------
(* The validator chain.                                                    *)

\* The checks a client registers: one that accepts every value and one that
\* raises ValueError for every value.
Checks == {"accept", "reject"}

\* Calling one entry of the chain with value: the exception raised ("": none).
call(entry, self, value) ==
    IF entry.kind = "method" THEN to_python(self, value).exc
    ELSE IF entry.fn = "reject" THEN "ValueError"
    ELSE ""

\* The for loop of Column.validate from the k-th entry on: the entries it
\* invoked, in order, and the exception that ended it ("": none).
\* e is the exception the k-th entry raised.
RECURSIVE run_chain(_, _, _, _)
RECURSIVE called(_, _, _, _, _)
\* Mutant of called: a failure is remembered only after the whole chain ran.
called_to_the_end(self, value, k, invoked, e) ==
    IF k >= Len(self.validators) THEN [invoked |-> invoked, exc |-> e]
    ELSE [run_chain(self, value, k + 1, invoked) EXCEPT
            !.exc = IF e # "" THEN e ELSE @]
run_chain(self, value, k, invoked) ==
    IF k > Len(self.validators) THEN [invoked |-> invoked, exc |-> ""]
    ELSE called(self, value, k, Append(invoked, self.validators[k]),
                call(self.validators[k], self, value))
called(self, value, k, invoked, e) ==
    IF e # "" THEN [invoked |-> invoked, exc |-> e]
    ELSE run_chain(self, value, k + 1, invoked)

\* Column.validate(value)
validate(self, value) == run_chain(self, value, 1, <<>>)

---------------------------------------------------------------------------
(* The state machine: a client calling the columns' operations.            *)

Threads == 1..NumThreads

\* The record of a call: the operation, the column it was made on, its
\* argument, its outcome, the chain entries it invoked, and, when its
\* argument is the value the preceding call on the column returned, that
\* preceding call's own argument.
Call(op, col, arg, out, invoked, origin) ==
    [op |-> op, col |-> col, arg |-> arg, out |-> out, invoked |-> invoked,
     origin |-> origin]
NoCall == Call("none", 0, None, Ret(None), <<>>, None)

\* Mutants of next: one that skips a value, one that yields a value twice.
next_skipping(c) == [value |-> c, state |-> c + 2]
next_stale(c) == [value |-> c, state |-> c]

\* itertools.count.next(): the value yielded and the counter afterwards.
next(c) == [value |-> c, state |-> c + 1]

\* The argument of the preceding call, when that call was op on column i and
\* returned value.
Origin(i, op, value) ==
    IF last.op = op /\ last.col = i /\ last.out.exc = "" /\ last.out.val = value
    THEN last.arg ELSE None

\* What the preceding call returned, when it was op on column i.
Returned(i, op) ==
    IF last.op = op /\ last.col = i /\ last.out.exc = "" THEN {last.out.val} ELSE {}

\* kind(...): Column.__init__ and its overrides, run by one thread.
Construct(a) ==
    /\ Len(columns) < MaxColumns
    /\ \E obj \in New(a, next(count).value) : columns' = Append(columns, obj)
    /\ count' = next(count).state
    /\ last' = Call("construct", Len(columns) + 1, None, Ret(None), <<>>, None)
    /\ UNCHANGED <<added, pc, tmp>>

\* columns[i].attach_to_class(cls, name, dialect)
Attach(i, cls, name) ==
    /\ i \in 1..Len(columns)
    /\ Len(added) < MaxAttach
    /\ columns' = [columns EXCEPT ![i] = attach_to_class(@, cls, name, Dialect("csv"))]
    /\ added' = Append(added, i)
    /\ last' = Call("attach", i, name, Ret(None), <<>>, None)
    /\ UNCHANGED <<count, pc, tmp>>

\* columns[i].validator(func)
Validator(i, func) ==
    /\ i \in 1..Len(columns)
    /\ Len(columns[i].validators) < MaxChain
    /\ columns' = [columns EXCEPT ![i] = validator(@, func)]
    /\ last' = Call("validator", i, Function(func), Ret(Function(func)), <<>>, None)
    /\ UNCHANGED <<count, added, pc, tmp>>

\* The record of columns[i].validate(value), which ran the chain as r tells.
Validated(i, value, r) ==
    Call("validate", i, value, IF r.exc = "" THEN Ret(None) ELSE Raise(r.exc),
         r.invoked, Origin(i, "to_python", value))

\* columns[i].validate(value)
Validate(i, value) ==
    /\ i \in 1..Len(columns)
    /\ last' = Validated(i, value, validate(columns[i], value))
    /\ UNCHANGED <<count, columns, added, pc, tmp>>

\* Mutant of CallToPython: the column remembers the value it parsed as its
\* title.
CallToPython_caching(i, value) ==
    /\ i \in 1..Len(columns)
    /\ last' = Call("to_python", i, value, to_python(columns[i], value), <<>>,
                    Origin(i, "to_string", value))
    /\ columns' = [columns EXCEPT ![i].title = value]
    /\ UNCHANGED <<count, added, pc, tmp>>

\* columns[i].to_python(value)
CallToPython(i, value) ==
    /\ i \in 1..Len(columns)
    /\ last' = Call("to_python", i, value, to_python(columns[i], value), <<>>,
                    Origin(i, "to_string", value))
    /\ UNCHANGED <<count, columns, added, pc, tmp>>

\* columns[i].to_string(value)
CallToString(i, value) ==
    /\ i \in 1..Len(columns)
    /\ last' = Call("to_string", i, value, to_string(columns[i], value), <<>>,
                    Origin(i, "to_python", value))
    /\ UNCHANGED <<count, columns, added, pc, tmp>>

\* A thread inside Column.__init__: the call next(self.__class__._count) runs
\* as one step of the interpreter; storing its result in self.counter, the rest
\* of the constructor and handing the object back are the thread's next step.
ThreadNext(t, a) ==
    /\ pc[t] = "idle"
    /\ count < MaxInFlight
    /\ tmp' = [tmp EXCEPT ![t] = [t |-> "frame", n |-> next(count).value, a |-> a]]
    /\ count' = next(count).state
    /\ pc' = [pc EXCEPT ![t] = "called"]
    /\ UNCHANGED <<columns, added, last>>

ThreadStore(t) ==
    /\ pc[t] = "called"
    /\ \E obj \in New(tmp[t].a, tmp[t].n) : columns' = Append(columns, obj)
    /\ pc' = [pc EXCEPT ![t] = "idle"]
    /\ tmp' = [tmp EXCEPT ![t] = None]
    /\ last' = Call("construct", Len(columns) + 1, None, Ret(None), <<>>, None)
    /\ UNCHANGED <<count, added>>

---------------------------------------------------------------------------
(* The inputs the client draws.                                            *)

yes_no_map == Dict((S_yes :> TRUE) @@ (S_no :> FALSE))
y_yes_no_map == Dict((S_y :> TRUE) @@ (S_yes :> TRUE) @@ (S_no :> FALSE))

\* Raw texts handed to to_python, by the class of the column.
RawTexts(self) ==
    LET texts ==
          CASE self.kind \in {"Column", "StringColumn"} -> {S_value, S_empty}
            [] self.kind = "UnicodeColumn" -> {S_spinal_utf8, S_value}
            [] self.kind = "IntegerColumn" -> {S_1, S_minus7, S_invalid}
            [] self.kind = "FloatColumn" -> {S_1_1, S_1_10, S_invalid}
            [] self.kind = "FloatWithCommaSeparatorsColumn" ->
                  {S_1c024_5, S_in_valid, S_multi}
            [] self.kind = "BooleanColumn" ->
                  {S_true, S_false, S_yes, S_no, S_True, S_y}
            [] self.kind = "DecimalColumn" -> {S_1_1, S_1_10, S_invalid}
            [] OTHER -> {S_iso, S_us, S_dashed_us, S_invalid, S_us_time, S_ambig,
                         S_feb30}
    IN  {Str(x) : x \in texts}

\* Native values handed to to_string and validate, by the class of the column.
Natives(self) ==
    CASE self.kind \in {"Column", "StringColumn"} -> {Str(S_value)}
      [] self.kind = "UnicodeColumn" -> {Unicode(U_spinal), Unicode(U_tap)}
      [] self.kind = "IntegerColumn" -> {PyInt(1), PyInt(-7)}
      [] self.kind = "FloatColumn" -> {Float(11, -1), Float(10245, -1)}
      [] self.kind = "FloatWithCommaSeparatorsColumn" -> {Float(10245, -1)}
      [] self.kind = "BooleanColumn" -> {Bool(TRUE), Bool(FALSE)}
      [] self.kind = "DecimalColumn" -> {Decimal(11, -1), Decimal(110, -2)}
      [] self.kind = "DateTimeColumn" ->
            {DateTime(2010, 3, 31, 0, 0, 0, self.timezone),
             DateTime(2010, 3, 31, 11, 43, 12, self.timezone),
             Date(2010, 3, 31)}
      [] OTHER -> {Date(2010, 3, 31), Date(2010, 1, 2)}

Titles == {None, Str(S_empty), Str(S_My_T)}
Names == {Str(S_a_b), Str(S_c)}

\* Constructor calls of the conversion runs: every class with its defaults,
\* and the Boolean and date classes with their own parameters.
ConvArgs ==
    {DefaultArgs(k) : k \in Kinds}
    \cup {Args("BooleanColumn", None, TRUE, m, F_ISO, <<>>, None) :
            m \in {yes_no_map, y_yes_no_map}}
    \cup {Args("DateTimeColumn", None, TRUE, None, F_USTIME, <<>>, None),
          Args("DateTimeColumn", None, TRUE, None, F_ISO, <<F_US>>, None),
          Args("DateTimeColumn", None, TRUE, None, F_US, <<F_EU>>, None),
          Args("DateTimeColumn", None, TRUE, None, F_ISO, <<>>, Timezone("UTC")),
          Args("DateColumn", None, TRUE, None, F_US, <<>>, None),
          Args("DateColumn", None, TRUE, None, F_US, <<F_EU>>, None)}

\* Constructor calls of the single-column runs.
ColumnArgs ==
    {Args(k, title, required, None, F_ISO, <<>>, None) :
        k \in {"Column", "IntegerColumn", "BooleanColumn", "DateColumn"},
        title \in Titles, required \in BOOLEAN}

\* Constructor calls of the runs that construct several columns: the three
\* constructors, the last one through a class that inherits it, and a titled
\* optional column.
RegistryArgs ==
    {DefaultArgs(k) : k \in {"BooleanColumn", "DateColumn"}}
    \cup {Args("Column", Str(S_My_T), FALSE, None, F_ISO, <<>>, None)}

---------------------------------------------------------------------------
(* Specifications.                                                         *)

Quiet == pc = [t \in Threads |-> "idle"] /\ tmp = [t \in Threads |-> None]

\* Several columns constructed by one thread; each is attached at most once
\* and given at most one check.
Init ==
    /\ count = 0
    /\ columns = <<>>
    /\ added = <<>>
    /\ last = NoCall
    /\ Quiet

Next ==
    \/ \E a \in RegistryArgs : Construct(a)
    \/ \E i \in 1..Len(columns) :
          columns[i].cls = Unset /\ Attach(i, Class("Row"), Str(S_a_b))
    \/ \E i \in 1..Len(columns) :
          Len(columns[i].validators) = 1 /\ Validator(i, "reject")
    \/ \E i \in 1..Len(columns) : \E v \in Natives(columns[i]) : Validate(i, v)
    \/ \E i \in 1..Len(columns) : \E v \in RawTexts(columns[i]) : CallToPython(i, v)
    \/ \E i \in 1..Len(columns) : \E v \in Natives(columns[i]) : CallToString(i, v)

Spec == Init /\ [][Next]_vars

\* One column, freshly constructed, through its life.
InitColumn ==
    /\ count = 1
    /\ \E a \in ColumnArgs : \E obj \in New(a, 0) : columns = <<obj>>
    /\ added = <<>>
    /\ last = NoCall
    /\ Quiet

NextColumn ==
    \/ \E name \in Names : Attach(1, Class("Row"), name)
    \/ \E func \in Checks : Validator(1, func)
    \/ \E v \in Natives(columns[1]) \cup RawTexts(columns[1]) : Validate(1, v)
    \/ \E v \in RawTexts(columns[1]) : CallToPython(1, v)
    \/ \E v \in Natives(columns[1]) : CallToString(1, v)

SpecColumn == InitColumn /\ [][NextColumn]_vars

\* One column with no registered check: its conversions, also applied to
\* what the preceding conversion returned.
InitConv ==
    /\ count = 1
    /\ \E a \in ConvArgs : \E obj \in New(a, 0) : columns = <<obj>>
    /\ added = <<>>
    /\ last = NoCall
    /\ Quiet

NextConv ==
    \/ \E v \in RawTexts(columns[1]) \cup Returned(1, "to_string") : CallToPython(1, v)
    \/ \E v \in Natives(columns[1]) \cup Returned(1, "to_python") : CallToString(1, v)
    \/ \E v \in Natives(columns[1]) \cup Returned(1, "to_python") : Validate(1, v)

SpecConv == InitConv /\ [][NextConv]_vars

\* Several threads constructing columns.
ThreadArgs ==
    {DefaultArgs(k) : k \in {"Column", "BooleanColumn", "DateTimeColumn"}}

InitThreads == Init

NextThreads ==
    \/ \E t \in Threads : \E a \in ThreadArgs : ThreadNext(t, a)
    \/ \E t \in Threads : ThreadStore(t)

SpecThreads == InitThreads /\ [][NextThreads]_vars

---------------------------------------------------------------------------
(* The claims.                                                             *)

Counter(i) == columns[i].counter
Stored == {Counter(i) : i \in 1..Len(columns)}

\* C1: after any sequence of constructions, of any mix of classes, the
\* counter values are strictly increasing in construction order, none is
\* given twice, consecutive constructions get consecutive values, and no
\* operation other than a construction advances the counter.
C1_CounterOrder ==
    /\ [](\A i, j \in 1..Len(columns) :
            /\ i < j => Counter(i) < Counter(j)
            /\ j = i + 1 => Counter(j) = Counter(i) + 1)
    /\ [][last'.op # "construct" => count' = count]_vars

\* C1 witness: the bound's worth of columns, a BooleanColumn and, after it, a
\* DateColumn (built by DateTimeColumn's constructor) among them, and a
\* validate call made after them.
C1_Witness ==
    /\ Len(columns) = MaxColumns
    /\ \E i, j \in 1..Len(columns) :
          /\ i < j
          /\ columns[i].kind = "BooleanColumn"
          /\ columns[j].kind = "DateColumn"
    /\ last.op = "validate"

\* C2: the first entry of every column's chain is its own to_python; a call
\* of validator appends the check it is given, after the entries that are
\* there, and returns that function; no other call changes a chain.
C2_ChainOrder ==
    /\ [](\A i \in 1..Len(columns) :
            columns[i].validators[1] = Method("to_python"))
    /\ [][\A i \in 1..Len(columns) :
            IF last'.op = "validator" /\ last'.col = i
            THEN /\ columns'[i].validators =
                        Append(columns[i].validators, Partial(last'.arg.f))
                 /\ last'.out = Ret(last'.arg)
            ELSE columns'[i].validators = columns[i].validators]_vars

\* C2 witness: two different checks registered one after the other.
C2_Witness ==
    /\ last.op = "validator"
    /\ Len(columns[1].validators) = 3
    /\ columns[1].validators[2] = Partial("accept")
    /\ columns[1].validators[3] = Partial("reject")

\* C3: validate invokes the entries of the chain in chain order; every entry
\* before the last one invoked passed; when one fails it is the last one
\* invoked and its failure is what validate raises; when none fails all were
\* invoked.  So a failing to_python at the head leaves every check uninvoked.
C3_StopsAtFirstFailure ==
    last.op = "validate" =>
        LET self == columns[last.col]
            n == Len(last.invoked)
        IN  /\ n \in 1..Len(self.validators)
            /\ \A k \in 1..n : last.invoked[k] = self.validators[k]
            /\ \A k \in 1..(n - 1) : call(self.validators[k], self, last.arg) = ""
            /\ last.out.exc = call(self.validators[n], self, last.arg)
            /\ last.out.exc = "" => n = Len(self.validators)

\* C3 witness: a chain of three whose second entry failed, the third never
\* invoked.
C3_Witness ==
    /\ last.op = "validate"
    /\ Len(columns[1].validators) = 3
    /\ Len(last.invoked) = 2
    /\ last.out.exc = "ValueError"

\* The native values to_python of the column returns for some raw text.
ParseReturns(self) ==
    {to_python(self, x).val : x \in {y \in RawTexts(self) : to_python(self, y).exc = ""}}

\* C4: for a column with no registered check, validate of a native value
\* that the column's own to_python can return does not raise.
C4_ValidateNative ==
    (/\ last.op = "validate"
     /\ Len(columns[1].validators) = 1
     /\ last.arg \in ParseReturns(columns[1]))
    => last.out.exc = ""

\* The text with every underscore replaced by a space.
Spaced(name, title) ==
    /\ Len(title) = Len(name)
    /\ \A k \in 1..Len(name) : title[k] = (IF name[k] = 95 THEN 32 ELSE name[k])

\* C5: attaching a column that has no title gives it the field name with
\* every underscore replaced by a space; attaching a column that has a
\* title, the empty one included, leaves the title; and a title changes
\* only when a column that has none is attached for the first time, so that
\* once a column is attached no call, a further attach included, changes it.
C5_Title ==
    /\ [][\A i \in 1..Len(columns) :
            (last'.op = "attach" /\ last'.col = i) =>
                IF columns[i].title = None
                THEN /\ columns'[i].title.t = "str"
                     /\ Spaced(last'.arg.s, columns'[i].title.s)
                ELSE columns'[i].title = columns[i].title]_vars
    /\ [][\A i \in 1..Len(columns) :
            columns'[i].title # columns[i].title =>
                /\ last'.op = "attach" /\ last'.col = i
                /\ columns[i].title = None
                /\ columns[i].cls = Unset]_vars

\* C5 witness: a column without a title attached as 'a_b' and then again
\* as 'c'.
C5_Witness ==
    /\ last.op = "attach"
    /\ Len(added) = 2
    /\ columns[1].name = Str(S_c)
    /\ columns[1].title = Str(<<97, 32, 98>>)

\* C6, as claimed: to_python, to_string, validate and validator each leave
\* every field of the column unchanged.
C6_OnlyAttachChanges ==
    [][last'.op \in {"to_python", "to_string", "validate", "validator"}
         => columns' = columns]_vars

\* C6, amended: to_python, to_string and validate leave every field of the
\* column unchanged; validator changes the validator chain and no other
\* field.
C6_Frame ==
    [][/\ last'.op \in {"to_python", "to_string", "validate"} => columns' = columns
       /\ last'.op = "validator" =>
            \A i \in 1..Len(columns) :
                [columns'[i] EXCEPT !.validators = columns[i].validators] = columns[i]
      ]_vars

\* C6 witness: an attached column with a registered check, just parsed.
C6_Witness ==
    /\ last.op = "to_python"
    /\ columns[1].cls # Unset
    /\ Len(columns[1].validators) > 1

\* C7: when a text matches the primary format of a DateTimeColumn, to_python
\* returns the value the primary format gives, whatever else it matches.
C7_PrimaryFirst ==
    (/\ last.op = "to_python"
     /\ columns[1].kind = "DateTimeColumn"
     /\ last.arg.t = "str"
     /\ strptime(last.arg, columns[1].format).exc = "")
    => last.out =
         (IF columns[1].timezone # None
          THEN Ret(localize(columns[1].timezone,
                            strptime(last.arg, columns[1].format).val))
          ELSE strptime(last.arg, columns[1].format))

\* The python_values of the column's test fixture.
FixtureValues(self) ==
    CASE self.kind \in {"Column", "StringColumn"} -> {Str(S_value)}
      [] self.kind = "UnicodeColumn" -> {Unicode(U_spinal)}
      [] self.kind = "IntegerColumn" -> {PyInt(1)}
      [] self.kind = "FloatColumn" -> {Float(11, -1)}
      [] self.kind = "FloatWithCommaSeparatorsColumn" -> {Float(10245, -1)}
      [] self.kind = "BooleanColumn" -> {Bool(TRUE), Bool(FALSE)}
      [] self.kind = "DecimalColumn" -> {Decimal(11, -1)}
      [] self.kind = "DateColumn" -> {Date(2010, 3, 31)}
      [] self.kind = "DateTimeColumn" /\ self.format = F_USTIME ->
            {DateTime(2010, 3, 31, 11, 43, 12, self.timezone)}
      [] OTHER -> {DateTime(2010, 3, 31, 0, 0, 0, self.timezone)}

\* The valid values of a column: those of its fixture and those its own
\* to_python returns.
ValidValues(self) == FixtureValues(self) \cup ParseReturns(self)

\* C8: for every class and every valid value v of the column, to_string(v)
\* returns, and to_python of what it returned returns a value equal to v.
C8_RoundTrip ==
    /\ (last.op = "to_string" /\ last.arg \in ValidValues(columns[1]))
          => last.out.exc = ""
    /\ (last.op = "to_python" /\ last.origin # None
           /\ last.origin \in ValidValues(columns[1]))
          => (last.out.exc = "" /\ PyEq(last.out.val, last.origin))

\* The invalid_values of the column's test fixture.
InvalidValues(self) ==
    LET texts ==
          CASE self.kind \in {"IntegerColumn", "FloatColumn", "DecimalColumn"} ->
                  {S_invalid}
            [] self.kind = "FloatWithCommaSeparatorsColumn" -> {S_in_valid, S_multi}
            [] self.kind = "BooleanColumn" /\ self.bool_map = default_bool_map ->
                  {S_yes, S_True}
            [] self.kind = "BooleanColumn" /\ self.bool_map = yes_no_map ->
                  {S_true, S_false}
            [] self.kind \in {"DateColumn", "DateTimeColumn"}
                 /\ Len(self.input_formats) = 1 /\ self.format \in {F_ISO, F_US} ->
                  {S_invalid, S_dashed_us}
            [] self.kind = "DateTimeColumn"
                 /\ Len(self.input_formats) = 1 /\ self.format = F_USTIME ->
                  {S_invalid, S_us}
            [] OTHER -> {}
    IN  {Str(x) : x \in texts}

\* C9: for every raw value the column's fixture lists as invalid, to_python
\* raises ValueError, or validate of the value to_python returned raises.
C9_InvalidRejected ==
    /\ (last.op = "to_python" /\ last.arg \in InvalidValues(columns[1])
           /\ last.out.exc # "")
          => last.out.exc = "ValueError"
    /\ (last.op = "validate" /\ last.origin # None
           /\ last.origin \in InvalidValues(columns[1]))
          => last.out.exc # ""

InFlight == {tmp[t].n : t \in {u \in Threads : pc[u] = "called"}}

\* C10: however the constructions of several threads interleave, no two
\* columns get the same counter value, no value a thread holds is held by
\* another thread or stored in a column, every value the counter gave out is
\* stored or held, and when no construction is under way the N columns hold
\* the N values 0..N-1.
C10_ThreadSafe ==
    /\ \A i, j \in 1..Len(columns) : i # j => Counter(i) # Counter(j)
    /\ \A t \in Threads : pc[t] = "called" =>
          /\ tmp[t].n \notin Stored
          /\ \A u \in Threads : (u # t /\ pc[u] = "called") => tmp[u].n # tmp[t].n
    /\ Stored \cup InFlight = 0..(count - 1)
    /\ Quiet => Stored = 0..(Len(columns) - 1)

\* C10 witness: two constructions overlapped, the later call of next()
\* finished first, and both are done.
C10_Witness ==
    /\ Quiet
    /\ Len(columns) >= 2
    /\ Counter(1) > Counter(2)

=============================================================================
